---- MODULE Spec2Model ----
(***************************************************************************)
(* Model of fix_s3.py: a script that reads one source file, splits it into *)
(* lines, scans the lines once for three landmarks and prints a report.    *)
(*                                                                         *)
(* Text is modelled as a sequence of tokens.  A token is a piece of text   *)
(* that the script never looks inside: the two halves of each method       *)
(* signature, the closing brace, the newline, whitespace and "other text". *)
(***************************************************************************)
EXTENDS Integers, Sequences, FiniteSets

\* ---------------------------------------------------------------- bounds
\* Number of lines of the file that are not blank.
MaxMarks == 2
\* Number of lines that follow the last line of the brace window.
TailLines == 2

\* ------------------------------------------------------ program constants
None == -1
WindowLow == 700
WindowHigh == 720
ExcerptOffset == 10
ExcerptLimit == 20

NL == "\n"
Whitespace == {" ", "\t", "\r"}
PutSig == <<"async fn ", "put(&self, key: &str, data: &[u8])">>
ExistsSig == <<"async fn ", "exists(&self, key: &str)">>

\* ------------------------------------------------------------ pure parts
\* A test that accepts the tokens of sub in order with others in between.
ContainsScattered(sub, s) ==
    \E f \in [1..Len(sub) -> 1..Len(s)] :
        /\ \A m \in 1..Len(sub) : s[f[m]] = sub[m]
        /\ \A m \in 1..(Len(sub) - 1) : f[m] < f[m + 1]

\* sub in s (Python's substring test), on token sequences.
Contains(sub, s) ==
    \E k \in 0..(Len(s) - Len(sub)) :
        \A m \in 1..Len(sub) : s[k + m] = sub[m]

\* s.strip(): s without its leading and trailing whitespace.
Strip(s) ==
    LET inked == {k \in 1..Len(s) : s[k] \notin Whitespace}
    IN  IF inked = {} THEN <<>>
        ELSE LET lo == CHOOSE k \in inked : \A m \in inked : k <= m
                 hi == CHOOSE k \in inked : \A m \in inked : m <= k
             IN  SubSeq(s, lo, hi)

\* content.split('\n'): the pieces between the newlines, in order; always at
\* least one piece, the last one being what follows the last newline.
Split(c) ==
    LET n == Len(c)
        \* the positions of the newlines, in increasing order
        nl == SelectSeq([k \in 1..n |-> k], LAMBDA k : c[k] = NL)
        cuts == Len(nl)
    IN  [j \in 1..(cuts + 1) |->
            SubSeq(c,
                   IF j = 1 THEN 1 ELSE nl[j - 1] + 1,
                   IF j = cuts + 1 THEN n ELSE nl[j] - 1)]

\* Python's truth value of a landmark: None and 0 are both false.
Truthy(v) == v # None /\ v # 0

Min(a, b) == IF a < b THEN a ELSE b

\* ------------------------------------------------------------ the files
\* The texts a marked line can have.
PutLine == <<" ">> \o PutSig \o <<" ", "x">>
ExistsLine == <<" ">> \o ExistsSig \o <<"x">>
BothLine == PutSig \o <<"x">> \o ExistsSig
BraceLine == <<" ", "}", "\r">>
BareBrace == <<"}">>
BraceText == <<"}", " ", "x">>
BrokenSig == <<"async fn ", "x", "put(&self, key: &str, data: &[u8])">>

\* The marks a file can carry: a line index with the text of that line.
\* Near the top, signature lines around the excerpt's offsets from a put
\* line at index 0 or 1; near the brace window, its edges.
HeadMarks ==
    { <<0, PutLine>>, <<0, ExistsLine>>, <<0, BrokenSig>>,
      <<1, PutLine>>, <<1, ExistsLine>>,
      <<1 + ExcerptOffset, ExistsLine>>, <<1 + ExcerptOffset, PutLine>>,
      <<2 + ExcerptOffset, ExistsLine>>, <<2 + ExcerptOffset, BothLine>>,
      <<1 + ExcerptLimit, ExistsLine>>,
      <<2 + ExcerptLimit, ExistsLine>> }

TailMarks ==
    { <<WindowLow, BareBrace>>,
      <<WindowLow + 1, BraceLine>>,
      <<WindowHigh - 1, BareBrace>>, <<WindowHigh - 1, BraceText>>,
      <<WindowHigh - 1, PutLine>>,
      <<WindowHigh, BraceLine>> }

MarkChoices == HeadMarks \cup TailMarks

\* The sets of at most k marks, no two on the same line.
RECURSIVE MarksUpTo(_)
MarksUpTo(k) ==
    IF k = 0 THEN {{}}
    ELSE LET fewer == MarksUpTo(k - 1)
         IN  fewer \cup
                 {m \cup {a} : <<m, a>> \in
                     {x \in fewer \X MarkChoices :
                         \A b \in x[1] : b[1] # x[2][1]}}

MarkSets == MarksUpTo(MaxMarks)

Max(S) == CHOOSE x \in S : \A y \in S : y <= x

\* Number of lines of the file with the marks m.
NumLines(m) ==
    IF m = {} THEN 1
    ELSE IF m \cap TailMarks # {} THEN WindowHigh + 1 + TailLines
         ELSE Max({a[1] : a \in HeadMarks}) + 1 + TailLines

\* A line that carries no mark is blank or holds some other text.
Filler(p) == IF p % 2 = 1 THEN <<" ", "x">> ELSE <<>>

LineAt(m, p) ==
    IF \E a \in m : a[1] = p THEN (CHOOSE a \in m : a[1] = p)[2]
    ELSE Filler(p)

\* The text of the file: its lines p..q joined by newlines.
RECURSIVE JoinRange(_, _, _)
JoinRange(m, p, q) ==
    IF p = q THEN LineAt(m, p)
    ELSE LET mid == (p + q) \div 2
         IN  JoinRange(m, p, mid) \o <<NL>> \o JoinRange(m, mid + 1, q)

TextOf(m) == JoinRange(m, 0, NumLines(m) - 1)

Files == {[readable |-> TRUE, text |-> TextOf(m)] : m \in MarkSets}
             \cup {[readable |-> FALSE, text |-> <<>>]}

\* ---------------------------------------------------------------- state
VARIABLES
    file,                 \* crates/mediagit-storage/src/s3.rs on disk
    lines,                \* content.split('\n'), a sequence (index 0 first)
    put_method_start,
    exists_method_start,
    list_objects_end,
    i,                    \* the next index the running loop visits
    out,                  \* what has been printed, in order
    pc

vars == <<file, lines, put_method_start, exists_method_start,
          list_objects_end, i, out, pc>>

N == Len(lines)
Line(k) == lines[k + 1]

Init ==
    /\ file \in Files
    /\ lines = <<>>
    /\ put_method_start = None
    /\ exists_method_start = None
    /\ list_objects_end = None
    /\ i = 0
    /\ out = <<>>
    /\ pc = "read"

\* Lines 7-25: open and read the file, split it, reset the landmarks.
ReadOk ==
    /\ pc = "read"
    /\ file.readable
    /\ lines' = Split(file.text)
    /\ put_method_start' = None
    /\ exists_method_start' = None
    /\ list_objects_end' = None
    /\ i' = 0
    /\ pc' = "scan"
    /\ UNCHANGED <<file, out>>

\* A failed read taken for an empty file.
ReadFailIgnored ==
    /\ pc = "read"
    /\ ~file.readable
    /\ lines' = Split(<<>>)
    /\ pc' = "scan"
    /\ UNCHANGED <<file, put_method_start, exists_method_start,
                   list_objects_end, i, out>>

\* Line 7: open() raises and nothing catches it.
ReadFail ==
    /\ pc = "read"
    /\ ~file.readable
    /\ pc' = "failed"
    /\ UNCHANGED <<file, lines, put_method_start, exists_method_start,
                   list_objects_end, i, out>>

\* Lines 28, 30: the substring tests of the scan loop's if/elif chain.
MatchesPut(line) == Contains(PutSig, line)
MatchesExists(line) == Contains(ExistsSig, line)

\* A window that takes in its lower edge.
InBraceWindowInclusive(k, line) ==
    k >= WindowLow /\ Strip(line) = <<"}">> /\ k < WindowHigh

\* Line 32: the brace test of the scan loop's if/elif chain.
InBraceWindow(k, line) ==
    k > WindowLow /\ Strip(line) = <<"}">> /\ k < WindowHigh

\* A chain that tests the exists signature before the put signature.
RuleExistsFirst(k, line) ==
    IF MatchesExists(line) THEN "exists"
    ELSE IF MatchesPut(line) THEN "put"
    ELSE IF InBraceWindow(k, line) THEN "end"
    ELSE "none"

\* Lines 28-33: the branch of the if/elif chain that line k takes.
Rule(k, line) ==
    IF MatchesPut(line) THEN "put"
    ELSE IF MatchesExists(line) THEN "exists"
    ELSE IF InBraceWindow(k, line) THEN "end"
    ELSE "none"

\* A scan that keeps the first match of each rule instead of the last.
ScanStepFirstWins ==
    /\ pc = "scan"
    /\ i < N
    /\ LET r == Rule(i, Line(i))
       IN  /\ put_method_start' =
                  IF r = "put" /\ put_method_start = None
                  THEN i ELSE put_method_start
           /\ exists_method_start' =
                  IF r = "exists" /\ exists_method_start = None
                  THEN i ELSE exists_method_start
           /\ list_objects_end' =
                  IF r = "end" /\ list_objects_end = None
                  THEN i ELSE list_objects_end
    /\ i' = i + 1
    /\ UNCHANGED <<file, lines, out, pc>>

\* Lines 27-33: one iteration of the scan loop, on line i.
ScanStep ==
    /\ pc = "scan"
    /\ i < N
    /\ LET r == Rule(i, Line(i))
       IN  /\ put_method_start' = IF r = "put" THEN i ELSE put_method_start
           /\ exists_method_start' =
                  IF r = "exists" THEN i ELSE exists_method_start
           /\ list_objects_end' = IF r = "end" THEN i ELSE list_objects_end
    /\ i' = i + 1
    /\ UNCHANGED <<file, lines, out, pc>>

\* Status lines with the last two in the other order.
StatusLinesSwapped ==
    << <<"put", put_method_start>>,
       <<"end", list_objects_end>>,
       <<"exists", exists_method_start>> >>

\* Lines 35-37: the three status lines, printed when the loop is exhausted.
StatusLines ==
    << <<"put", put_method_start>>,
       <<"exists", exists_method_start>>,
       <<"end", list_objects_end>> >>

PrintStatus ==
    /\ pc = "scan"
    /\ i >= N
    /\ out' = out \o StatusLines
    /\ pc' = "guard"
    /\ UNCHANGED <<file, lines, put_method_start, exists_method_start,
                   list_objects_end, i>>

\* A guard that asks for exists_method_start alone.
ExcerptGuardExistsOnly == Truthy(exists_method_start)

\* Line 40: the test that guards the excerpt.
ExcerptGuard == Truthy(put_method_start) /\ Truthy(exists_method_start)

\* An excerpt that starts at the put line itself.
ExcerptFirstNoOffset == put_method_start
\* An excerpt that always runs ten lines, whatever exists_method_start is.
ExcerptStopNoMin == put_method_start + ExcerptLimit

\* Line 42: range(put_method_start + 10, min(put_method_start + 20, exists_method_start)).
ExcerptFirst == put_method_start + ExcerptOffset
ExcerptStop == Min(put_method_start + ExcerptLimit, exists_method_start)

\* Lines 40-41: print the excerpt's label and enter its loop.
ExcerptEnter ==
    /\ pc = "guard"
    /\ ExcerptGuard
    /\ out' = Append(out, <<"label", put_method_start, exists_method_start>>)
    /\ i' = ExcerptFirst
    /\ pc' = "excerpt"
    /\ UNCHANGED <<file, lines, put_method_start, exists_method_start,
                   list_objects_end>>

\* Line 40, test false: the script ends.
ExcerptSkip ==
    /\ pc = "guard"
    /\ ~ExcerptGuard
    /\ pc' = "done"
    /\ UNCHANGED <<file, lines, put_method_start, exists_method_start,
                   list_objects_end, i, out>>

\* lines[k]: Python indexing; a negative index counts from the end and an
\* index outside -N..N-1 raises IndexError.
InRange(k) == -N <= k /\ k < N
Item(k) == IF k < 0 THEN lines[N + k + 1] ELSE lines[k + 1]

\* Lines 42-43: one iteration of the excerpt loop.
ExcerptStep ==
    /\ pc = "excerpt"
    /\ i < ExcerptStop
    /\ IF InRange(i)
       THEN /\ out' = Append(out, <<"line", i, Item(i)>>)
            /\ i' = i + 1
            /\ pc' = pc
       ELSE /\ pc' = "crashed"
            /\ UNCHANGED <<i, out>>
    /\ UNCHANGED <<file, lines, put_method_start, exists_method_start,
                   list_objects_end>>

\* Line 42: the range is exhausted and the script ends.
ExcerptEnd ==
    /\ pc = "excerpt"
    /\ i >= ExcerptStop
    /\ pc' = "done"
    /\ UNCHANGED <<file, lines, put_method_start, exists_method_start,
                   list_objects_end, i, out>>

Next ==
    \/ ReadOk
    \/ ReadFail
    \/ ScanStep
    \/ PrintStatus
    \/ ExcerptEnter
    \/ ExcerptSkip
    \/ ExcerptStep
    \/ ExcerptEnd

Spec == Init /\ [][Next]_vars

\* The steps of the script that follow a successful read.
Run ==
    \/ ScanStep
    \/ PrintStatus
    \/ ExcerptEnter
    \/ ExcerptSkip
    \/ ExcerptStep
    \/ ExcerptEnd


\* ------------------------------------------------- vocabulary of the claims
\* The match rules as the specification words them, stated on their own.
HasPutSig(line) ==
    \E k \in 1..(Len(line) - 1) :
        line[k] = "async fn " /\ line[k + 1] = "put(&self, key: &str, data: &[u8])"

HasExistsSig(line) ==
    \E k \in 1..(Len(line) - 1) :
        line[k] = "async fn " /\ line[k + 1] = "exists(&self, key: &str)"

\* The line is one closing brace with nothing but whitespace around it.
IsLoneBrace(line) ==
    \E k \in 1..Len(line) :
        /\ line[k] = "}"
        /\ \A q \in (1..Len(line)) \ {k} : line[q] \in {" ", "\t", "\r"}

Indices == 0..(N - 1)
PutLines == {k \in Indices : HasPutSig(Line(k))}
ExistsLines == {k \in Indices : HasExistsSig(Line(k))}
ExistsOnlyLines == {k \in ExistsLines : ~HasPutSig(Line(k))}
BraceLines == {k \in Indices : 700 < k /\ k < 720 /\ IsLoneBrace(Line(k))}

HighestOrNone(S) == IF S = {} THEN None ELSE Max(S)

\* The scan loop has finished.
Scanned == pc \in {"guard", "excerpt", "done", "crashed"}

IsSet(v) == v # None
BothSet == IsSet(put_method_start) /\ IsSet(exists_method_start)

\* What was printed after the three status lines.
AfterStatus == SubSeq(out, 4, Len(out))
\* The source lines printed, in order.
PrintedLines == SelectSeq(out, LAMBDA e : e[1] = "line")
LabelLine == <<"label", put_method_start, exists_method_start>>

\* The excerpt the specification describes: the lines first..stop-1, each
\* with its own index.
ExpectedExcerpt ==
    LET first == put_method_start + 10
        stop == IF put_method_start + 20 < exists_method_start
                THEN put_method_start + 20 ELSE exists_method_start
    IN  [k \in 1..(stop - first) |->
            <<"line", first + k - 1, lines[first + k]>>]

\* ------------------------------------------------------------------ C1
\* C1 as stated: after the scan each landmark is the highest index among
\* the lines that contain the put substring, contain the exists substring,
\* or are a lone brace inside the window; it is unset only if there is none.
C1_AsStated ==
    Scanned =>
        /\ put_method_start = HighestOrNone(PutLines)
        /\ exists_method_start = HighestOrNone(ExistsLines)
        /\ list_objects_end = HighestOrNone(BraceLines)

\* C1 amended: after the scan each landmark is the highest index among the
\* lines matching its rule, where the rule of existsStart is "contains the
\* exists substring and not the put substring"; unset only if none matches.
C1_LastMatchWins ==
    Scanned =>
        /\ put_method_start = HighestOrNone(PutLines)
        /\ exists_method_start = HighestOrNone(ExistsOnlyLines)
        /\ list_objects_end = HighestOrNone(BraceLines)

\* Two lines match the put rule and the scan has kept the later one.
C1_Witness ==
    /\ Scanned
    /\ Cardinality(PutLines) >= 2
    /\ put_method_start = Max(PutLines)

\* ------------------------------------------------------------------ C2
\* C2: when both landmarks are set (index 0 included) and
\* putStart + 10 < existsStart, the finished run has printed exactly the
\* lines putStart+10 .. min(putStart+20, existsStart)-1, in order, each with
\* its index, and no other source line.
C2_ExcerptPrinted ==
    (pc = "done" /\ BothSet /\ put_method_start + 10 < exists_method_start)
        => PrintedLines = ExpectedExcerpt

\* ------------------------------------------------------------------ C3
\* C3 as stated: when both landmarks are set and putStart + 10 >= existsStart
\* nothing at all follows the three status lines, and the run does not fail.
C3_AsStated ==
    (Scanned /\ BothSet /\ put_method_start + 10 >= exists_method_start)
        => pc # "crashed" /\ AfterStatus = <<>>

\* C3 amended: when both landmarks are set and putStart + 10 >= existsStart
\* no source line is printed and the run does not fail; what follows the
\* three status lines is the excerpt label alone when both indices are
\* non-zero, and nothing when one of them is 0.
C3_NoLinesOnEmptyRange ==
    (Scanned /\ BothSet /\ put_method_start + 10 >= exists_method_start)
        => /\ pc # "crashed"
           /\ PrintedLines = <<>>
           /\ pc = "done" =>
                  AfterStatus =
                      IF put_method_start # 0 /\ exists_method_start # 0
                      THEN <<LabelLine>> ELSE <<>>

\* A finished run with existsStart before putStart: only the label follows.
C3_Witness ==
    /\ pc = "done"
    /\ BothSet
    /\ exists_method_start < put_method_start
    /\ AfterStatus = <<LabelLine>>

\* ------------------------------------------------------------------ C4
\* C4: when putStart is unset, whatever existsStart is, and likewise when
\* existsStart is unset and putStart is set, no excerpt is printed: the
\* excerpt loop is never entered and nothing follows the status lines.
C4_NoExcerptWhenUnset ==
    (Scanned /\ ~BothSet) => pc \in {"guard", "done"} /\ Len(out) = 3

\* A finished run with putStart unset and existsStart set to a non-zero
\* index.
C4_Witness ==
    /\ pc = "done"
    /\ put_method_start = None
    /\ IsSet(exists_method_start)
    /\ exists_method_start > 0

\* ------------------------------------------------------------------ C5
\* C5: for a document (the empty one included) with no line containing
\* either substring and no lone brace inside the window, the run does not
\* fail, the three landmarks are reported unset and no excerpt is printed.
C5_NothingFound ==
    (Scanned /\ PutLines = {} /\ ExistsLines = {} /\ BraceLines = {})
        => /\ pc \in {"guard", "done"}
           /\ out = << <<"put", None>>, <<"exists", None>>, <<"end", None>> >>

\* The finished run on a file that holds a broken signature and a lone
\* brace outside the window, and nothing that matches.
C5_Witness ==
    /\ pc = "done"
    /\ PutLines = {} /\ ExistsLines = {} /\ BraceLines = {}
    /\ \E k \in Indices : IsLoneBrace(Line(k))
    /\ \E k \in Indices : Line(k) = BrokenSig

\* ------------------------------------------------------------------ C6
\* C6: a scan step applies at most one rule, in the order put, exists,
\* brace window: on a line with the put substring only putStart changes (to
\* the line's index); on a line with the exists substring and not the put
\* substring only existsStart changes; blockEnd changes only on a line with
\* neither substring.
C6_Step ==
    (pc = "scan" /\ i' = i + 1) =>
        LET line == Line(i) IN
        /\ HasPutSig(line) =>
               /\ put_method_start' = i
               /\ UNCHANGED <<exists_method_start, list_objects_end>>
        /\ (HasExistsSig(line) /\ ~HasPutSig(line)) =>
               /\ exists_method_start' = i
               /\ UNCHANGED <<put_method_start, list_objects_end>>
        /\ list_objects_end' # list_objects_end =>
               /\ ~HasPutSig(line) /\ ~HasExistsSig(line)
               /\ UNCHANGED <<put_method_start, exists_method_start>>

\* C6: every step of every run is such a step.
C6_OneRulePerLine == [][C6_Step]_vars

\* The scan has just passed a line with both substrings: putStart is its
\* index and existsStart still holds an earlier line's index.
C6_Witness ==
    /\ pc = "scan"
    /\ i > 0
    /\ HasPutSig(Line(i - 1)) /\ HasExistsSig(Line(i - 1))
    /\ put_method_start = i - 1
    /\ IsSet(exists_method_start)

\* ------------------------------------------------------------------ C7
\* C7: in every state blockEnd is unset or an index strictly between 700
\* and 720 whose line is a lone closing brace once stripped.
C7_BlockEndInWindow ==
    \/ list_objects_end = None
    \/ /\ 700 < list_objects_end
       /\ list_objects_end < 720
       /\ list_objects_end < N
       /\ IsLoneBrace(Line(list_objects_end))

\* The scan has passed a lone brace at index 700 and one at index 720, and
\* blockEnd is neither.
C7_Witness ==
    /\ Scanned
    /\ N > 720
    /\ IsLoneBrace(Line(700))
    /\ IsLoneBrace(Line(720))
    /\ list_objects_end = None

\* ------------------------------------------------------------------ C8
\* C8: if the file cannot be read the run ends in the failed state with no
\* line printed and no landmark set; it never scans, and from the failed
\* state nothing happens any more (no retry).
C8_Inv ==
    /\ ~file.readable => pc \in {"read", "failed"}
    /\ pc = "failed" =>
           /\ ~file.readable
           /\ out = <<>>
           /\ lines = <<>>
           /\ put_method_start = None
           /\ exists_method_start = None
           /\ list_objects_end = None

C8_Step == (~file.readable /\ pc = "read") => (pc' = "failed" /\ out' = <<>>)

\* C8: the failure leaves nothing printed or set, and is final.
C8_FatalReadFailure ==
    /\ []C8_Inv
    /\ [][C8_Step]_vars
    /\ [][pc = "failed" => UNCHANGED vars]_vars

\* The run has failed on the unreadable file.
C8_Witness == pc = "failed" /\ ~file.readable

\* ------------------------------------------------------------------ C9
\* C9: when the read succeeds the scan starts at index 0, visits the
\* indices one by one up to N-1 and stops; then, and not before, the three
\* status lines are printed in the order putStart, existsStart, blockEnd
\* with the landmarks' final values, before any excerpt output; and the run
\* reaches its successful end.  Termination is stated as: until the run is
\* done a step is always possible, and every step lowers a bound on the
\* number of steps left, which never goes below 0.
Running == pc \in {"scan", "guard", "excerpt"}

StepsLeft ==
    CASE pc = "scan" -> (N - i) + 2 + 11
      [] pc = "guard" -> 1 + 11
      [] pc = "excerpt" ->
            IF i < exists_method_start /\ i < put_method_start + 20
            THEN 1 + (put_method_start + 20 - i) ELSE 1
      [] OTHER -> 0

C9_Step ==
    /\ (pc = "read" /\ pc' = "scan") => i' = 0
    /\ (pc = "scan" /\ pc' = "scan") => (i < N /\ i' = i + 1)
    /\ (pc = "scan" /\ pc' # "scan") =>
           /\ i = N
           /\ pc' = "guard"
           /\ out = <<>>
           /\ out' = << <<"put", put_method_start>>,
                        <<"exists", exists_method_start>>,
                        <<"end", list_objects_end>> >>
    /\ Scanned =>
           /\ UNCHANGED <<put_method_start, exists_method_start,
                          list_objects_end, lines>>
           /\ Len(out') >= Len(out)
           /\ SubSeq(out', 1, Len(out)) = out
    /\ Running => (StepsLeft' < StepsLeft /\ StepsLeft' >= 0)

C9_Inv ==
    /\ pc \in {"read", "scan"} => out = <<>>
    /\ Scanned =>
           /\ Len(out) >= 3
           /\ out[1] = <<"put", put_method_start>>
           /\ out[2] = <<"exists", exists_method_start>>
           /\ out[3] = <<"end", list_objects_end>>
           /\ \A k \in 4..Len(out) : out[k][1] \in {"label", "line"}
    /\ pc # "crashed"
    /\ Running => ENABLED Run

\* C9: one pass in index order, then the status lines, then the end.
C9_OnePassThenReport == []C9_Inv /\ [][C9_Step]_vars

\* A finished run that found all of its lines and printed an excerpt after
\* the status lines.
C9_Witness ==
    /\ pc = "done"
    /\ i > 0
    /\ Len(out) > 4
    /\ out[4][1] = "label"

\* ----------------------------------------------------------------- C10
\* C10: every index whose line the excerpt loop reads lies inside the
\* document and in putStart+10 .. existsStart-1, at most 10 lines are
\* printed, and the loop never reads outside the document.
C10_ExcerptInBounds ==
    /\ pc # "crashed"
    /\ Len(PrintedLines) <= 10
    /\ \A k \in 1..Len(out) :
           out[k][1] = "line" =>
               /\ 0 <= out[k][2] /\ out[k][2] < N
               /\ put_method_start + 10 <= out[k][2]
               /\ out[k][2] < exists_method_start
               /\ out[k][3] = Line(out[k][2])
    /\ (pc = "excerpt" /\ i < ExcerptStop) => (0 <= i /\ i < N)

\* A finished run that printed a line although putStart + 20 lies beyond
\* the end of the document.
C10_Witness ==
    /\ pc = "done"
    /\ Len(PrintedLines) >= 1
    /\ put_method_start + 20 > N
====
